---- MODULE Spec2Model ----
(***************************************************************************)
(* Model of the tick-indexed step buffer `Steps<T>` of nimble-rust/steps   *)
(* (src/src/lib.rs).  The buffer is a VecDeque of StepInfo records plus    *)
(* the two cursors expected_read_id and expected_write_id.  Every public   *)
(* mutating method is a pure operator over the buffer value (`push`,       *)
(* `pop`, `pop_up_to`, `pop_count`) and an action applying it to the       *)
(* state; the four &self queries are actions that only report a value.    *)
(* A failed assert_eq! inside pop is a panic: the process halts, and the   *)
(* buffer is left as the unwinding finds it.                               *)
(***************************************************************************)
EXTENDS Integers, Sequences, FiniteSets, TLC

(* ------------------------------ bounds -------------------------------- *)

\* number of push calls in one run
MaxPush == 4

\* initial ticks handed to new_with_initial_tick range over 0..MaxInitialTick
MaxInitialTick == 2

\* number of distinct (opaque) participant step batches
NumBatches == 2

Batches == 1 .. NumBatches

\* thresholds handed to pop_up_to: below, inside and above every queue
Ticks == 0 .. (MaxInitialTick + MaxPush + 1)

\* counts handed to pop_count: below, equal to and above every length
Counts == 0 .. (MaxPush + 1)

(* ------------------------------ state ---------------------------------- *)

VARIABLES
    steps,              \* Steps.steps: queue of StepInfo, front first
    expected_read_id,   \* Steps.expected_read_id
    expected_write_id,  \* Steps.expected_write_id
    faulted,            \* TRUE once an assert_eq! in pop has panicked
    lastOp,             \* the method called last ("new" after construction)
    lastArg,            \* its argument (batch, threshold or count; 0 if none)
    result,             \* what the last call returned
    pre,                \* the buffer value just before the last call
    initial_tick_id,    \* the tick the buffer was constructed with
    pushed,             \* batches handed to push, in call order
    popped,             \* StepInfo records returned by pop, in call order
    discarded           \* entries removed so far by pop_up_to and pop_count

vars == <<steps, expected_read_id, expected_write_id, faulted, lastOp,
          lastArg, result, pre, initial_tick_id, pushed, popped, discarded>>

(* --------------------------- value helpers ----------------------------- *)

\* Option<StepInfo<T>> and the other outcomes of a call
None == [tag |-> "None"]

Some(info) == [tag |-> "Some", info |-> info]

Unit == [tag |-> "unit"]

\* a usize or bool handed back by len() and is_empty()
Value(v) == [tag |-> "value", value |-> v]

Panic == [tag |-> "panic"]

\* slip: the cursor is not advanced
AddOne_Stuck(t) == t

\* TickId += 1.  TickId is a 32-bit unsigned counter; every tick of a run is
\* at most MaxInitialTick + MaxPush, far below u32::MAX, so the increment
\* never reaches the overflow of the type.
AddOne(t) == t + 1

StepInfo(step, tick_id) == [step |-> step, tick_id |-> tick_id]

\* the buffer as one value
SelfOf(q, r, w) ==
    [steps |-> q, expected_read_id |-> r, expected_write_id |-> w]

Self == SelfOf(steps, expected_read_id, expected_write_id)

\* slip: the entry is put at the front of the queue
push_back_AtFront(q, info) == <<info>> \o q

\* VecDeque::push_back
push_back(q, info) == Append(q, info)

\* slip: the front entry is read but left in the queue
pop_front_Peek(q) ==
    IF q = <<>> THEN [info |-> None, rest |-> q]
                ELSE [info |-> Some(Head(q)), rest |-> q]

\* VecDeque::pop_front: the removed entry (or None) and the remaining queue
pop_front(q) ==
    IF q = <<>> THEN [info |-> None, rest |-> q]
                ELSE [info |-> Some(Head(q)), rest |-> Tail(q)]

(* ----------------------------- constructors ---------------------------- *)

\* slip: the read cursor starts at zero whatever the initial tick
new_with_initial_tick_ReadZero(t) == SelfOf(<<>>, 0, t)

\* slip: the write cursor starts at zero whatever the initial tick
new_with_initial_tick_WriteZero(t) == SelfOf(<<>>, t, 0)

new_with_initial_tick(t) == SelfOf(<<>>, t, t)

new == SelfOf(<<>>, 0, 0)

(* ------------------------------- methods ------------------------------- *)

\* slip: the entry is tagged with the read cursor
push_TagsReadId(self, step) ==
    LET info == StepInfo(step, self.expected_read_id)
    IN  SelfOf(push_back(self.steps, info),
               self.expected_read_id,
               AddOne(self.expected_write_id))

\* slip: the write cursor is not advanced
push_NoAdvance(self, step) ==
    LET info == StepInfo(step, self.expected_write_id)
    IN  SelfOf(push_back(self.steps, info),
               self.expected_read_id,
               self.expected_write_id)

push(self, step) ==
    LET info == StepInfo(step, self.expected_write_id)
    IN  SelfOf(push_back(self.steps, info),
               self.expected_read_id,
               AddOne(self.expected_write_id))

\* slip: the assertion is left out
pop_assert_Omitted(step_info, read_id) == TRUE

\* the operands of assert_eq! in pop agree
pop_assert(step_info, read_id) == step_info.tick_id = read_id

\* slip: the read cursor advances on every call, entry or not
pop_AdvancesOnNone(self) ==
    LET f == pop_front(self.steps)
    IN  IF f.info = None
        THEN [self |-> SelfOf(f.rest, AddOne(self.expected_read_id),
                              self.expected_write_id),
              result |-> None, panic |-> FALSE]
        ELSE IF pop_assert(f.info.info, self.expected_read_id)
             THEN [self |-> SelfOf(f.rest, AddOne(self.expected_read_id),
                                   self.expected_write_id),
                   result |-> f.info, panic |-> FALSE]
             ELSE [self |-> SelfOf(f.rest, self.expected_read_id,
                                   self.expected_write_id),
                   result |-> Panic, panic |-> TRUE]

\* slip: the read cursor is advanced before the assertion is evaluated
pop_AdvancesBeforeAssert(self) ==
    LET f == pop_front(self.steps)
    IN  IF f.info = None
        THEN [self |-> SelfOf(f.rest, self.expected_read_id,
                              self.expected_write_id),
              result |-> None, panic |-> FALSE]
        ELSE IF pop_assert(f.info.info, self.expected_read_id)
             THEN [self |-> SelfOf(f.rest, AddOne(self.expected_read_id),
                                   self.expected_write_id),
                   result |-> f.info, panic |-> FALSE]
             ELSE [self |-> SelfOf(f.rest, AddOne(self.expected_read_id),
                                   self.expected_write_id),
                   result |-> Panic, panic |-> TRUE]

\* slip: the front entry is checked in place and removed only if it passes
pop_ChecksBeforeRemoving(self) ==
    LET f == pop_front(self.steps)
    IN  IF f.info = None
        THEN [self |-> SelfOf(f.rest, self.expected_read_id,
                              self.expected_write_id),
              result |-> None, panic |-> FALSE]
        ELSE IF pop_assert(f.info.info, self.expected_read_id)
             THEN [self |-> SelfOf(f.rest, AddOne(self.expected_read_id),
                                   self.expected_write_id),
                   result |-> f.info, panic |-> FALSE]
             ELSE [self |-> SelfOf(self.steps, self.expected_read_id,
                                   self.expected_write_id),
                   result |-> Panic, panic |-> TRUE]

\* pop: the buffer after the call, what it returned, and whether it panicked.
\* The entry is taken off the queue before the assertion is evaluated.
pop(self) ==
    LET f == pop_front(self.steps)
    IN  IF f.info = None
        THEN [self |-> SelfOf(f.rest, self.expected_read_id,
                              self.expected_write_id),
              result |-> None, panic |-> FALSE]
        ELSE IF pop_assert(f.info.info, self.expected_read_id)
             THEN [self |-> SelfOf(f.rest, AddOne(self.expected_read_id),
                                   self.expected_write_id),
                   result |-> f.info, panic |-> FALSE]
             ELSE [self |-> SelfOf(f.rest, self.expected_read_id,
                                   self.expected_write_id),
                   result |-> Panic, panic |-> TRUE]

\* slip: the loop stops only at an entry strictly above the threshold
RECURSIVE pop_up_to_loop_Strict(_, _)
pop_up_to_loop_Strict(q, tick_id) ==
    IF q = <<>> THEN q
    ELSE IF Head(q).tick_id > tick_id THEN q
    ELSE pop_up_to_loop_Strict(Tail(q), tick_id)

\* slip: `if let` for `while let`, at most one entry goes
pop_up_to_loop_Once(q, tick_id) ==
    IF q = <<>> THEN q
    ELSE IF Head(q).tick_id >= tick_id THEN q
    ELSE Tail(q)

\* the while-let loop of pop_up_to over the queue
RECURSIVE pop_up_to_loop(_, _)
pop_up_to_loop(q, tick_id) ==
    IF q = <<>> THEN q
    ELSE IF Head(q).tick_id >= tick_id THEN q
    ELSE pop_up_to_loop(Tail(q), tick_id)

\* slip: the read cursor is moved to the threshold
pop_up_to_SetsReadId(self, tick_id) ==
    SelfOf(pop_up_to_loop(self.steps, tick_id),
           tick_id, self.expected_write_id)

pop_up_to(self, tick_id) ==
    SelfOf(pop_up_to_loop(self.steps, tick_id),
           self.expected_read_id, self.expected_write_id)

\* slip: an inclusive range, drain(..=count)
drain_Inclusive(q, count) == SubSeq(q, count + 2, Len(q))

\* VecDeque::drain(..count) dropped at once: the first count entries go
drain(q, count) == SubSeq(q, count + 1, Len(q))

\* slip: the read cursor is moved past the entries that were dropped
pop_count_ResyncsReadId(self, count) ==
    LET q == IF count >= Len(self.steps) THEN <<>>
                                         ELSE drain(self.steps, count)
    IN  SelfOf(q,
               IF q = <<>> THEN self.expected_write_id ELSE Head(q).tick_id,
               self.expected_write_id)

\* slip: clearing the queue also rewinds the write cursor
pop_count_ClearRewinds(self, count) ==
    IF count >= Len(self.steps)
    THEN SelfOf(<<>>, self.expected_read_id, self.expected_read_id)
    ELSE SelfOf(drain(self.steps, count),
                self.expected_read_id, self.expected_write_id)

pop_count(self, count) ==
    SelfOf(IF count >= Len(self.steps) THEN <<>>
                                       ELSE drain(self.steps, count),
           self.expected_read_id, self.expected_write_id)

(* ------------------------------- queries ------------------------------- *)

front_tick_id(self) ==
    IF self.steps = <<>> THEN None ELSE Some(Head(self.steps).tick_id)

\* slip: the back query reads the front of the queue
back_tick_id_ReadsFront(self) ==
    IF self.steps = <<>> THEN None ELSE Some(Head(self.steps).tick_id)

back_tick_id(self) ==
    IF self.steps = <<>> THEN None
    ELSE Some(self.steps[Len(self.steps)].tick_id)

len(self) == Len(self.steps)

is_empty(self) == self.steps = <<>>

(* ------------------------------- actions ------------------------------- *)

Init ==
    \E t \in 0 .. MaxInitialTick :
        LET s == IF t = 0 THEN new ELSE new_with_initial_tick(t)
        IN  /\ steps = s.steps
            /\ expected_read_id = s.expected_read_id
            /\ expected_write_id = s.expected_write_id
            /\ faulted = FALSE
            /\ lastOp = "new"
            /\ lastArg = t
            /\ result = Unit
            /\ pre = s
            /\ initial_tick_id = t
            /\ pushed = <<>>
            /\ popped = <<>>
            /\ discarded = 0

Push ==
    /\ ~faulted
    /\ Len(pushed) < MaxPush
    /\ \E step \in Batches :
        LET s == push(Self, step)
        IN  /\ steps' = s.steps
            /\ expected_read_id' = s.expected_read_id
            /\ expected_write_id' = s.expected_write_id
            /\ lastOp' = "push"
            /\ lastArg' = step
            /\ result' = Unit
            /\ pre' = Self
            /\ pushed' = Append(pushed, step)
            /\ UNCHANGED <<faulted, initial_tick_id, popped, discarded>>

Pop ==
    /\ ~faulted
    /\ LET r == pop(Self)
       IN  /\ steps' = r.self.steps
           /\ expected_read_id' = r.self.expected_read_id
           /\ expected_write_id' = r.self.expected_write_id
           /\ faulted' = r.panic
           /\ lastOp' = "pop"
           /\ lastArg' = 0
           /\ result' = r.result
           /\ pre' = Self
           /\ popped' = IF r.result.tag = "Some"
                        THEN Append(popped, r.result.info)
                        ELSE popped
           /\ UNCHANGED <<initial_tick_id, pushed, discarded>>

PopUpTo ==
    /\ ~faulted
    /\ \E tick_id \in Ticks :
        LET s == pop_up_to(Self, tick_id)
        IN  /\ steps' = s.steps
            /\ expected_read_id' = s.expected_read_id
            /\ expected_write_id' = s.expected_write_id
            /\ lastOp' = "pop_up_to"
            /\ lastArg' = tick_id
            /\ result' = Unit
            /\ pre' = Self
            /\ discarded' = discarded + (Len(steps) - Len(s.steps))
            /\ UNCHANGED <<faulted, initial_tick_id, pushed, popped>>

PopCount ==
    /\ ~faulted
    /\ \E count \in Counts :
        LET s == pop_count(Self, count)
        IN  /\ steps' = s.steps
            /\ expected_read_id' = s.expected_read_id
            /\ expected_write_id' = s.expected_write_id
            /\ lastOp' = "pop_count"
            /\ lastArg' = count
            /\ result' = Unit
            /\ pre' = Self
            /\ discarded' = discarded + (Len(steps) - Len(s.steps))
            /\ UNCHANGED <<faulted, initial_tick_id, pushed, popped>>

\* The four &self queries: they report a value and touch nothing.
FrontTickId ==
    /\ ~faulted
    /\ lastOp' = "front_tick_id"
    /\ lastArg' = 0
    /\ result' = front_tick_id(Self)
    /\ pre' = Self
    /\ UNCHANGED <<steps, expected_read_id, expected_write_id, faulted,
                   initial_tick_id, pushed, popped, discarded>>

BackTickId ==
    /\ ~faulted
    /\ lastOp' = "back_tick_id"
    /\ lastArg' = 0
    /\ result' = back_tick_id(Self)
    /\ pre' = Self
    /\ UNCHANGED <<steps, expected_read_id, expected_write_id, faulted,
                   initial_tick_id, pushed, popped, discarded>>

LenQuery ==
    /\ ~faulted
    /\ lastOp' = "len"
    /\ lastArg' = 0
    /\ result' = Value(len(Self))
    /\ pre' = Self
    /\ UNCHANGED <<steps, expected_read_id, expected_write_id, faulted,
                   initial_tick_id, pushed, popped, discarded>>

IsEmpty ==
    /\ ~faulted
    /\ lastOp' = "is_empty"
    /\ lastArg' = 0
    /\ result' = Value(is_empty(Self))
    /\ pre' = Self
    /\ UNCHANGED <<steps, expected_read_id, expected_write_id, faulted,
                   initial_tick_id, pushed, popped, discarded>>

Next ==
    \/ Push \/ Pop \/ PopUpTo \/ PopCount
    \/ FrontTickId \/ BackTickId \/ LenQuery \/ IsEmpty

Spec == Init /\ [][Next]_vars

\* runs that use push and pop only
NextPushPop == Push \/ Pop

SpecPushPop == Init /\ [][NextPushPop]_vars

(* ------------------------------ claims --------------------------------- *)

Min(a, b) == IF a <= b THEN a ELSE b

Discards == {"pop_up_to", "pop_count"}

\* C1: in every reachable state, whenever the queue is non-empty,
\* expected_read_id equals the tick id of the front entry.
C1_ReadIdIsFrontTick ==
    steps # <<>> => expected_read_id = Head(steps).tick_id

\* C2: in runs of push and pop only, the k-th pushed batch is stored and
\* popped with tick id initial_tick_id + k - 1, pops return the batches in
\* push order, and the first push of a fresh buffer makes front_tick_id()
\* the initial tick.
C2_FifoWithTicks ==
    /\ Len(popped) + Len(steps) = Len(pushed)
    /\ \A k \in 1 .. Len(popped) :
          popped[k] = StepInfo(pushed[k], initial_tick_id + k - 1)
    /\ \A i \in 1 .. Len(steps) :
          steps[i] = StepInfo(pushed[Len(popped) + i],
                              initial_tick_id + Len(popped) + i - 1)
    /\ (Len(pushed) = 1 /\ lastOp = "push")
          => front_tick_id(Self) = Some(initial_tick_id)

C2_Witness ==
    /\ lastOp = "pop"
    /\ Len(popped) >= 2
    /\ popped[1].step # popped[2].step
    /\ Len(steps) >= 1

\* C3: after a discard (pop_up_to or pop_count) that leaves the queue
\* non-empty, the next pop does not fault and returns the front entry.
C3_PopAfterDiscardSucceeds ==
    [][(lastOp \in Discards /\ steps # <<>> /\ lastOp' = "pop")
          => (~faulted' /\ result' = Some(Head(steps)))]_vars

\* C4: the queued entries have contiguous, strictly increasing tick ids:
\* each entry's tick id is its predecessor's plus one.
C4_ContiguousTicks ==
    \A i \in 1 .. (Len(steps) - 1) :
        steps[i + 1].tick_id = steps[i].tick_id + 1

C4_Witness ==
    /\ Len(steps) >= 2
    /\ discarded > 0
    /\ Len(popped) > 0

\* C5: a pop on a non-empty queue whose front tick id differs from
\* expected_read_id panics and returns nothing; every entry pop returns
\* carries the tick id expected_read_id held just before the call.
C5_PopChecksTick ==
    lastOp = "pop" =>
        /\ (pre.steps # <<>>
            /\ Head(pre.steps).tick_id # pre.expected_read_id)
              => (faulted /\ result = Panic)
        /\ result.tag = "Some"
              => result.info.tick_id = pre.expected_read_id

C5_Witness ==
    /\ lastOp = "pop"
    /\ pre.steps # <<>>
    /\ Head(pre.steps).tick_id # pre.expected_read_id
    /\ faulted

\* C6: pop on an empty buffer returns None, does not fault and leaves the
\* cursors and the empty queue unchanged, also after discards.
C6_PopOnEmpty ==
    (lastOp = "pop" /\ pre.steps = <<>>)
        => (result = None /\ ~faulted /\ Self = pre)

C6_Witness ==
    /\ lastOp = "pop"
    /\ pre.steps = <<>>
    /\ discarded > 0
    /\ result = None

\* C7: pop_up_to(t) leaves exactly the prior entries with tick id >= t, in
\* order: a no-op when t <= front tick id, empties the buffer when
\* t > back tick id, and never discards an entry with tick id >= t.
C7_PopUpToKeepsFromTick ==
    lastOp = "pop_up_to" =>
        LET Keep(e) == e.tick_id >= lastArg
            n == Len(pre.steps)
        IN  /\ steps = SelectSeq(pre.steps, Keep)
            /\ (n > 0 /\ lastArg <= pre.steps[1].tick_id)
                  => steps = pre.steps
            /\ (n > 0 /\ lastArg > pre.steps[n].tick_id)
                  => steps = <<>>
            /\ \A i \in 1 .. n :
                  Keep(pre.steps[i])
                      => \E j \in 1 .. Len(steps) : steps[j] = pre.steps[i]

C7_Witness ==
    /\ lastOp = "pop_up_to"
    /\ Len(steps) >= 1
    /\ Len(steps) < Len(pre.steps)
    /\ Len(pre.steps) - Len(steps) >= 2

\* C8: pop_count(n) removes exactly min(n, len) entries from the front,
\* whatever their tick ids, leaving the rest in order; the buffer is
\* empty when n >= len.
C8_PopCountRemovesMin ==
    lastOp = "pop_count" =>
        LET n == Len(pre.steps)
            k == Min(lastArg, n)
        IN  /\ Len(steps) = n - k
            /\ \A i \in 1 .. Len(steps) : steps[i] = pre.steps[k + i]
            /\ lastArg >= n => steps = <<>>

C8_Witness ==
    /\ lastOp = "pop_count"
    /\ lastArg >= 1
    /\ lastArg < Len(pre.steps)
    /\ pre.steps[1].tick_id # pre.expected_read_id

\* C9: a non-empty queue has expected_write_id one past the back entry's
\* tick id; an empty queue from which no discard ever removed an entry has
\* expected_write_id equal to expected_read_id.
C9_WriteIdPastBack ==
    /\ steps # <<>>
          => expected_write_id = steps[Len(steps)].tick_id + 1
    /\ (steps = <<>> /\ discarded = 0)
          => expected_write_id = expected_read_id

C9_Witness ==
    /\ steps = <<>>
    /\ discarded = 0
    /\ lastOp = "pop"
    /\ Len(popped) >= 2
    /\ expected_write_id = initial_tick_id + Len(pushed)

\* C10: in runs of push and pop only, after n pushes and m successful
\* pops, m <= n, len() is n - m and is_empty() holds exactly when n = m.
C10_LenIsPushesMinusPops ==
    /\ Len(popped) <= Len(pushed)
    /\ len(Self) = Len(pushed) - Len(popped)
    /\ is_empty(Self) <=> (Len(pushed) = Len(popped))

C10_Witness ==
    /\ Len(pushed) >= 3
    /\ Len(popped) = 2
    /\ lastOp = "push"
    /\ ~is_empty(Self)

Queries == {"front_tick_id", "back_tick_id", "len", "is_empty"}

\* C11: discards never fault and change nothing when nothing qualifies:
\* pop_up_to(t) and pop_count(n) on an empty queue, and pop_up_to(t) with
\* t <= front tick id, leave the queue and both cursors as they were.
C11_DiscardNoOp ==
    lastOp \in Discards =>
        /\ ~faulted
        /\ result = Unit
        /\ pre.steps = <<>> => Self = pre
        /\ (lastOp = "pop_up_to" /\ pre.steps # <<>>
            /\ lastArg <= Head(pre.steps).tick_id) => Self = pre

C11_Witness ==
    /\ lastOp \in Discards
    /\ pre.steps = <<>>
    /\ lastArg > pre.expected_write_id
    /\ Len(pushed) > 0

\* C12: in runs of push and pop only, the assertion in pop never fails:
\* every pop on a non-empty queue returns its front entry, and the ticks
\* read are consecutive from the initial tick, none skipped or reordered.
C12_NoFaultWithoutDiscard ==
    /\ ~faulted
    /\ (lastOp = "pop" /\ pre.steps # <<>>)
          => (result = Some(Head(pre.steps))
              /\ expected_read_id = pre.expected_read_id + 1)
    /\ \A k \in 1 .. Len(popped) :
          popped[k].tick_id = initial_tick_id + k - 1

C12_Witness ==
    /\ lastOp = "pop"
    /\ result = None
    /\ Len(popped) >= 3
    /\ initial_tick_id > 0

\* C13: pop_up_to and pop_count change the queue only: both cursors keep
\* their values, so the next push is tagged as if no discard had happened.
C13_DiscardKeepsCursors ==
    lastOp \in Discards =>
        /\ expected_read_id = pre.expected_read_id
        /\ expected_write_id = pre.expected_write_id
        /\ \A b \in Batches :
              back_tick_id(push(Self, b)) = back_tick_id(push(pre, b))

C13_Witness ==
    /\ lastOp \in Discards
    /\ Len(steps) < Len(pre.steps)
    /\ steps = <<>>

\* C14: push appends exactly one entry at the tail, tagged with the
\* pre-call expected_write_id, advances expected_write_id by one and leaves
\* expected_read_id and the entries already queued alone; no operation
\* alters an entry that stays queued: what remains after a call is a tail
\* of what was there, and every queued entry still carries the batch that
\* was pushed for its tick.
C14_PushAppendsOnly ==
    /\ lastOp = "push" =>
          /\ ~faulted
          /\ Len(steps) = Len(pre.steps) + 1
          /\ steps[Len(steps)] = StepInfo(lastArg, pre.expected_write_id)
          /\ \A i \in 1 .. Len(pre.steps) : steps[i] = pre.steps[i]
          /\ expected_write_id = pre.expected_write_id + 1
          /\ expected_read_id = pre.expected_read_id
    /\ lastOp \notin {"push", "new"} =>
          \E k \in 0 .. Len(pre.steps) :
              steps = SubSeq(pre.steps, k + 1, Len(pre.steps))
    /\ \A i \in 1 .. Len(steps) :
          LET j == steps[i].tick_id - initial_tick_id + 1
          IN  j \in 1 .. Len(pushed) /\ steps[i].step = pushed[j]

C14_Witness ==
    /\ lastOp = "push"
    /\ Len(pre.steps) >= 2
    /\ discarded > 0
    /\ Head(steps).tick_id # expected_read_id

\* C15: front_tick_id(), back_tick_id(), len() and is_empty() change no
\* state; front and back are None exactly on an empty queue and otherwise
\* the tick ids of the oldest and newest entries, with
\* back - front + 1 = len().
C15_QueriesArePure ==
    /\ lastOp \in Queries => Self = pre
    /\ lastOp = "front_tick_id" =>
          /\ result = None <=> steps = <<>>
          /\ steps # <<>> => result = Some(steps[1].tick_id)
    /\ lastOp = "back_tick_id" =>
          /\ result = None <=> steps = <<>>
          /\ steps # <<>> => result = Some(steps[Len(steps)].tick_id)
    /\ lastOp = "len" => result = Value(Len(steps))
    /\ lastOp = "is_empty" => result = Value(steps = <<>>)
    /\ steps # <<>> =>
          back_tick_id(Self).info - front_tick_id(Self).info + 1 = len(Self)

C15_Witness ==
    /\ lastOp = "back_tick_id"
    /\ Len(steps) >= 2
    /\ result = Some(Head(steps).tick_id + Len(steps) - 1)

\* C16: once pop_up_to or pop_count has removed an entry, the read cursor
\* stays behind for good: the queue is empty with
\* expected_read_id < expected_write_id, or non-empty with a front tick id
\* above expected_read_id; every later pop on a non-empty queue faults and
\* no later pop returns an entry.
C16_DesyncIsPermanent ==
    discarded > 0 =>
        /\ \/ steps = <<>> /\ expected_read_id < expected_write_id
           \/ steps # <<>> /\ Head(steps).tick_id > expected_read_id
        /\ lastOp = "pop" =>
              /\ result.tag # "Some"
              /\ pre.steps # <<>> => (faulted /\ result = Panic)

C16_Witness ==
    /\ discarded > 0
    /\ lastOp = "pop"
    /\ faulted
    /\ Len(pushed) > discarded + Len(popped) + 1

\* C17: in every state that has not faulted, expected_read_id is at most
\* expected_write_id and every queued tick id t has
\* expected_read_id <= t < expected_write_id.
C17_TicksBetweenCursors ==
    ~faulted =>
        /\ expected_read_id <= expected_write_id
        /\ \A i \in 1 .. Len(steps) :
              /\ expected_read_id <= steps[i].tick_id
              /\ steps[i].tick_id < expected_write_id

C17_Witness ==
    /\ ~faulted
    /\ Len(steps) >= 2
    /\ Len(popped) > 0
    /\ Head(steps).tick_id > expected_read_id

C19_FaultLosesEntry ==
    faulted =>
        /\ lastOp = "pop"
        /\ pre.steps # <<>>
        /\ steps = Tail(pre.steps)
        /\ Len(steps) = Len(pre.steps) - 1
        /\ expected_read_id = pre.expected_read_id
        /\ expected_write_id = pre.expected_write_id
        /\ Self # pre

C19_Witness ==
    /\ faulted
    /\ Len(pre.steps) >= 2
    /\ Head(steps).tick_id = Head(pre.steps).tick_id + 1

\* C20: pop_up_to(a) followed by pop_up_to(b) gives the state of one
\* pop_up_to(max(a, b)); pop_up_to(t) twice is pop_up_to(t) once, and a
\* later call with a smaller threshold changes nothing.
C20_PopUpToComposes ==
    \A a \in Ticks :
        LET once == pop_up_to(Self, a)
        IN  \A b \in Ticks :
                pop_up_to(once, b) = IF b <= a THEN once
                                     ELSE pop_up_to(Self, b)

C20_Witness ==
    /\ lastOp = "pop_up_to"
    /\ Len(steps) >= 2
    /\ Len(pre.steps) - Len(steps) >= 2
    /\ \E b \in Ticks : pop_up_to(Self, b) # Self

====
